---- MODULE Spec2Model ----
(***************************************************************************)
(* Satisfaction-change attribution pipeline (satis_analysis.py):           *)
(* run_analysis -> zy_satis_analy (aggregate, decompose, threshold,        *)
(* replacement estimate, leave-one-out, tagging, sort) ->                  *)
(* sign_split_compress.                                                    *)
(*                                                                         *)
(* Numbers are exact rationals <<n, d>> in lowest terms with d > 0; the    *)
(* missing value (NaN / pd.NA) is <<0, 0>>.  Binary floating-point         *)
(* rounding error is not modelled; np.round(_, 6) is.                      *)
(***************************************************************************)
EXTENDS Integers, Sequences, FiniteSets, TLC

VARIABLES data, window, core_dims, min_eva, enable_method2,
          cur_df, base_df, idx, decomp, df_out, results, pc

vars == <<data, window, core_dims, min_eva, enable_method2,
          cur_df, base_df, idx, decomp, df_out, results, pc>>

(***************************************************************************)
(* Bounds of the model.                                                    *)
(***************************************************************************)
\* Largest number of raw rows in the uploaded sheet.
MaxRows == 5

(***************************************************************************)
(* Rational arithmetic with a missing value.                               *)
(***************************************************************************)
NaN == <<0, 0>>

IsNaN(x) == x[2] = 0

Abs(n) == IF n < 0 THEN -n ELSE n

RECURSIVE GCD(_, _)
GCD(a, b) == IF b = 0 THEN a ELSE GCD(b, a % b)

\* n / d in lowest terms; a zero denominator gives the missing value
\* (the only division by zero the pipeline performs unguarded is 0 / 0).
Norm(n, d) ==
    IF d = 0 THEN NaN
    ELSE LET s == IF d < 0 THEN -1 ELSE 1
             g == GCD(Abs(n), Abs(d))
         IN  <<(s * n) \div g, (s * d) \div g>>

R(n) == <<n, 1>>

Zero == R(0)

LCM(a, b) == (a \div GCD(a, b)) * b

RAdd(x, y) ==
    IF IsNaN(x) \/ IsNaN(y) THEN NaN
    ELSE LET l == LCM(x[2], y[2])
         IN  Norm(x[1] * (l \div x[2]) + y[1] * (l \div y[2]), l)

RNeg(x) == IF IsNaN(x) THEN NaN ELSE <<-x[1], x[2]>>

RSub(x, y) == RAdd(x, RNeg(y))

RMul(x, y) ==
    IF IsNaN(x) \/ IsNaN(y) THEN NaN
    ELSE LET a == Norm(x[1], y[2])
             b == Norm(y[1], x[2])
         IN  <<a[1] * b[1], a[2] * b[2]>>

RDiv(x, y) ==
    IF IsNaN(x) \/ IsNaN(y) THEN NaN
    ELSE Norm(x[1] * y[2], x[2] * y[1])

RAbs(x) == IF IsNaN(x) THEN NaN ELSE <<Abs(x[1]), x[2]>>

\* Comparisons with a missing operand are false, as in numpy / pandas.
RLt(x, y) ==
    /\ ~IsNaN(x)
    /\ ~IsNaN(y)
    /\ LET l == LCM(x[2], y[2])
       IN  x[1] * (l \div x[2]) < y[1] * (l \div y[2])

RGt(x, y) == RLt(y, x)

RLe(x, y) == ~IsNaN(x) /\ ~IsNaN(y) /\ ~RLt(y, x)

RMax(x, y) == IF RGt(y, x) THEN y ELSE x

\* Series.sum(): missing entries are skipped, the empty sum is 0.
RECURSIVE RSum(_)
RSum(s) ==
    IF s = <<>> THEN Zero
    ELSE LET h == IF IsNaN(Head(s)) THEN Zero ELSE Head(s)
         IN  RAdd(h, RSum(Tail(s)))

RECURSIVE ISum(_)
ISum(s) == IF s = <<>> THEN 0 ELSE Head(s) + ISum(Tail(s))

\* np.round(x, 6): to the nearest multiple of 10^-6, ties to even.
RoundScale == 1000000

Round6(x) ==
    IF IsNaN(x) THEN NaN
    ELSE LET a    == Abs(x[1])
             q    == a \div x[2]
             t    == (a % x[2]) * RoundScale
             m    == t \div x[2]
             rem  == t % x[2]
             up   == (2 * rem > x[2]) \/ (2 * rem = x[2] /\ m % 2 = 1)
             mag  == q * RoundScale + m + (IF up THEN 1 ELSE 0)
             sgn  == IF x[1] < 0 THEN -1 ELSE 1
         IN  Norm(sgn * mag, RoundScale)

(***************************************************************************)
(* Raw rows and the inputs of run_analysis.                                *)
(***************************************************************************)
Queues == {1, 2, 3}

\* Every queue belongs to one channel.
ChannelOf(q) == IF q = 3 THEN 2 ELSE 1

Dates == {1, 2}

\* (score, count) of one raw row: a single evaluation, satisfied or not.
RowVals == {<<0, 1>>, <<1, 1>>}

RowUniverse ==
    {[queue |-> q, channel |-> ChannelOf(q), dt |-> d, score |-> v[1], count |-> v[2]] :
        q \in Queues, d \in Dates, v \in RowVals}

\* (cur_start, cur_end, base_start, base_end)
WindowChoices == {<<2, 2, 1, 1>>, <<1, 2, 1, 1>>}

CoreDimsChoices == { << <<"queue">> >>, << <<"channel">>, <<"queue", "channel">> >> }

MinEvaChoices == {0, 1, 2}

(***************************************************************************)
(* Aggregator: groupby(dims)[agg].sum(), outer join, fillna(0).            *)
(***************************************************************************)
ColVal(row, col) == IF col = "queue" THEN row.queue ELSE row.channel

KeyOf(row, dims) == [i \in 1..Len(dims) |-> ColVal(row, dims[i])]

RECURSIVE KeyLess(_, _)
KeyLess(a, b) ==
    IF a = <<>> THEN FALSE
    ELSE IF Head(a) # Head(b) THEN Head(a) < Head(b)
    ELSE KeyLess(Tail(a), Tail(b))

\* The keys of a set in ascending order (groupby and the outer join sort).
RECURSIVE SortKeys(_)
SortKeys(S) ==
    IF S = {} THEN <<>>
    ELSE LET m == CHOOSE k \in S : \A o \in S \ {k} : KeyLess(k, o)
         IN  <<m>> \o SortKeys(S \ {m})

RECURSIVE SumField(_, _)
SumField(rows, f) ==
    IF rows = {} THEN 0
    ELSE LET r == CHOOSE x \in rows : TRUE
         IN  (IF f = "score" THEN r.score ELSE r.count) + SumField(rows \ {r}, f)

GroupRows(df, dims, key) == {r \in df : KeyOf(r, dims) = key}

GroupKeys(df, dims) == {KeyOf(r, dims) : r \in df}

\* cur.join(base, how='outer').fillna(0).reset_index()
Aggregate(cur, base, dims) ==
    LET keys == SortKeys(GroupKeys(cur, dims) \cup GroupKeys(base, dims))
    IN  [i \in 1..Len(keys) |->
            [key        |-> keys[i],
             cur_score  |-> SumField(GroupRows(cur, dims, keys[i]), "score"),
             cur_count  |-> SumField(GroupRows(cur, dims, keys[i]), "count"),
             base_score |-> SumField(GroupRows(base, dims, keys[i]), "score"),
             base_count |-> SumField(GroupRows(base, dims, keys[i]), "count")]]

Col(rows, f) == [i \in 1..Len(rows) |-> rows[i][f]]

(***************************************************************************)
(* Tables: the set of column names and the rows in order.                  *)
(***************************************************************************)
Table(cols, rows) == [cols |-> cols, rows |-> rows]

DecompCols ==
    {"key", "cur_score", "cur_count", "base_score", "base_count",
     "base_ratio", "cur_ratio", "base_weight", "cur_weight",
     "delta_ratio", "delta_weight", "service_effect", "weight_effect",
     "interaction_effect", "total_effect"}

EmptyTable == Table({}, <<>>)

(***************************************************************************)
(* Metric Decomposer (zy_satis_analy, lines 139-152).                      *)
(***************************************************************************)
\* score / count.replace(0, pd.NA)
Ratio(score, count) == IF count = 0 THEN NaN ELSE Norm(score, count)

\* g[[base_ratio, cur_ratio]].ffill(axis=1): columns are filled left to
\* right, so a missing cur_ratio takes base_ratio and a missing base_ratio
\* stays missing.
FfillRatios(base_ratio, cur_ratio) ==
    <<base_ratio, IF IsNaN(cur_ratio) THEN base_ratio ELSE cur_ratio>>

\* count / count.sum(): 0 / 0 is missing.
Weight(count, total) == Norm(count, total)

\* DataFrame.sum(axis=1) of the three effects: missing terms are skipped.
TotalEffect(service, weight, interaction) == RSum(<<service, weight, interaction>>)

DecomposeRow(a, base_total, cur_total) ==
    LET filled       == FfillRatios(Ratio(a.base_score, a.base_count),
                                    Ratio(a.cur_score, a.cur_count))
        base_ratio   == filled[1]
        cur_ratio    == filled[2]
        base_weight  == Weight(a.base_count, base_total)
        cur_weight   == Weight(a.cur_count, cur_total)
        delta_ratio  == RSub(cur_ratio, base_ratio)
        delta_weight == RSub(cur_weight, base_weight)
        service      == RMul(base_weight, delta_ratio)
        weight       == RMul(base_ratio, delta_weight)
        interaction  == RMul(delta_ratio, delta_weight)
    IN  [key |-> a.key,
         cur_score |-> a.cur_score, cur_count |-> a.cur_count,
         base_score |-> a.base_score, base_count |-> a.base_count,
         base_ratio |-> base_ratio, cur_ratio |-> cur_ratio,
         base_weight |-> base_weight, cur_weight |-> cur_weight,
         delta_ratio |-> delta_ratio, delta_weight |-> delta_weight,
         service_effect |-> service, weight_effect |-> weight,
         interaction_effect |-> interaction,
         total_effect |-> TotalEffect(service, weight, interaction)]

Decompose(agg) ==
    LET base_total == ISum(Col(agg, "base_count"))
        cur_total  == ISum(Col(agg, "cur_count"))
    IN  Table(DecompCols,
              [i \in 1..Len(agg) |-> DecomposeRow(agg[i], base_total, cur_total)])

\* g = g[g['cur_count'] >= min_eva]
ThresholdFilter(g, threshold) ==
    LET Keep(r) == r.cur_count >= threshold
    IN  Table(g.cols, SelectSeq(g.rows, Keep))

(***************************************************************************)
(* Replacement Estimator (add_replacement_quality).                        *)
(***************************************************************************)
IsGrow(r) == RGt(r.delta_weight, Zero)

IsLoss(r) == RLt(r.delta_weight, Zero)

\* The plain mean of the shrinking rows' cur_ratio, weights forgotten.
ReplacedQualityUnweighted(loss) ==
    RDiv(RSum(Col(loss, "cur_ratio")), R(Len(loss)))

ReplacedQuality(loss) ==
    LET total_loss == RSum([i \in 1..Len(loss) |-> RAbs(loss[i].delta_weight)])
        weighted   == RSum([i \in 1..Len(loss) |->
                              RMul(loss[i].cur_ratio, RAbs(loss[i].delta_weight))])
    IN  RDiv(weighted, total_loss)

add_replacement_quality(df) ==
    LET grow == SelectSeq(df.rows, IsGrow)
        loss == SelectSeq(df.rows, IsLoss)
        cols == df.cols \cup {"replacement_quality", "net_replacement_gap"}
    IN  IF grow = <<>> \/ loss = <<>>
        THEN Table(cols, [i \in 1..Len(df.rows) |->
                 df.rows[i] @@ [replacement_quality |-> NaN, net_replacement_gap |-> NaN]])
        ELSE LET s_replaced == ReplacedQuality(loss)
             IN  Table(cols, [i \in 1..Len(df.rows) |->
                     IF IsGrow(df.rows[i])
                     THEN df.rows[i] @@
                          [replacement_quality |-> s_replaced,
                           net_replacement_gap |-> RSub(df.rows[i].cur_ratio, s_replaced)]
                     ELSE df.rows[i] @@
                          [replacement_quality |-> NaN, net_replacement_gap |-> NaN]])

(***************************************************************************)
(* Leave-One-Out Estimator (add_leave_one_out).                            *)
(***************************************************************************)
\* total_score / total_eval if total_eval != 0 else np.nan
GuardedRatio(score, count) == IF count # 0 THEN Norm(score, count) ELSE NaN

\* The gap to the base period alone, the second difference forgotten.
LooGapOnly(S_cur_excl, S_cur_all, S_base_all) == RSub(S_cur_excl, S_base_all)

LooNetImpact(S_cur_excl, S_cur_all, S_base_all) ==
    RSub(RSub(S_cur_excl, S_base_all), RSub(S_cur_all, S_base_all))

add_leave_one_out(df) ==
    LET cur_total_score  == ISum(Col(df.rows, "cur_score"))
        cur_total_eval   == ISum(Col(df.rows, "cur_count"))
        base_total_score == ISum(Col(df.rows, "base_score"))
        base_total_eval  == ISum(Col(df.rows, "base_count"))
        S_cur_all        == GuardedRatio(cur_total_score, cur_total_eval)
        S_base_all       == GuardedRatio(base_total_score, base_total_eval)
        S_cur_excl(r)    == GuardedRatio(cur_total_score - r.cur_score,
                                         cur_total_eval - r.cur_count)
    IN  Table(df.cols \cup {"loo_net_impact"},
              [i \in 1..Len(df.rows) |->
                  df.rows[i] @@
                  [loo_net_impact |->
                      LooNetImpact(S_cur_excl(df.rows[i]), S_cur_all, S_base_all)]])

(***************************************************************************)
(* Tag Classifier (add_op_tag).                                            *)
(***************************************************************************)
delta_thresh == <<1, 200>>

replace_thresh == <<1, 100>>

dominance_ratio == <<3, 2>>

TagDefault == "no major driver"

TagCore == "core contributor (service up, volume up)"

TagCaptured == "service up but captured volume from others"

TagVolumeLost == "service up but volume lost"

TagNetPositive == "service down but still net-positive"

TagAttention == "service down, volume up (needs attention)"

TagQuality == "service decline, mainly quality-driven"

TagVolume == "service decline, mainly volume-driven"

TagMixed == "service decline, mixed quality+volume"

TagInsufficient == "insufficient base/current data"

\* The boolean masks in the order the function evaluates them; the numbers
\* are those of the function's own comments (1 .. 8).
Mask(n, r) ==
    LET dS     == r.delta_ratio
        dW     == r.delta_weight
        impact == r.total_effect
        gap    == r.net_replacement_gap
        t      == delta_thresh
        rt     == replace_thresh
    IN  CASE n = 1 -> RGt(dS, t) /\ RGt(dW, t) /\ RGt(impact, Zero) /\ RGt(gap, rt)
          [] n = 2 -> RGt(dS, t) /\ RGt(dW, t) /\ RGt(impact, Zero) /\ RLt(gap, RNeg(rt))
          [] n = 3 -> RGt(dS, t) /\ RLt(dW, RNeg(t)) /\ RGt(impact, Zero)
          [] n = 4 -> RLt(dS, RNeg(t)) /\ RGt(dW, t) /\ RGt(impact, Zero) /\ RGt(gap, rt)
          [] n = 5 -> RLt(dS, RNeg(t)) /\ RGt(dW, t) /\ RGt(impact, Zero)
                      /\ RLt(gap, RNeg(rt))
          [] n = 6 -> RLt(dS, RNeg(t)) /\ RGt(dW, t) /\ RLe(impact, Zero)
          [] n = 7 -> RLt(dS, Zero) /\ RLt(dW, Zero) /\ RLt(impact, Zero)
          [] n = 8 -> RLe(RAbs(dS), t) /\ RLe(RAbs(dW), t) /\ RLe(RAbs(impact), t)

\* The nested np.where of rule 7.
SubTag(r) ==
    LET service_impact == RAbs(r.service_effect)
        weight_impact  == RAbs(r.weight_effect)
    IN  IF RGt(service_impact, RMul(dominance_ratio, weight_impact)) THEN TagQuality
        ELSE IF RGt(weight_impact, RMul(dominance_ratio, service_impact)) THEN TagVolume
        ELSE TagMixed

\* The rules applied with the last two exchanged: the three-way decline
\* rule after the insufficient-data rule.
TagOfDeclineLast(r) ==
    LET t0 == TagDefault
        t1 == IF Mask(1, r) THEN TagCore ELSE t0
        t2 == IF Mask(2, r) THEN TagCaptured ELSE t1
        t3 == IF Mask(3, r) THEN TagVolumeLost ELSE t2
        t4 == IF Mask(4, r) THEN TagNetPositive ELSE t3
        t5 == IF Mask(5, r) THEN TagAttention ELSE t4
        t6 == IF Mask(6, r) THEN TagAttention ELSE t5
        t7 == IF Mask(8, r) THEN TagInsufficient ELSE t6
        t8 == IF Mask(7, r) THEN SubTag(r) ELSE t7
    IN  t8

\* tags[mask] = label, one rule after the other on the same array.
TagOf(r) ==
    LET t0 == TagDefault
        t1 == IF Mask(1, r) THEN TagCore ELSE t0
        t2 == IF Mask(2, r) THEN TagCaptured ELSE t1
        t3 == IF Mask(3, r) THEN TagVolumeLost ELSE t2
        t4 == IF Mask(4, r) THEN TagNetPositive ELSE t3
        t5 == IF Mask(5, r) THEN TagAttention ELSE t4
        t6 == IF Mask(6, r) THEN TagAttention ELSE t5
        t7 == IF Mask(7, r) THEN SubTag(r) ELSE t6
        t8 == IF Mask(8, r) THEN TagInsufficient ELSE t7
    IN  t8

\* replace_gap = df['net_replacement_gap'] raises KeyError when the column
\* was never added.
OpTagRaises(df) == "net_replacement_gap" \notin df.cols

add_op_tag(df) ==
    Table(df.cols \cup {"tag"},
          [i \in 1..Len(df.rows) |-> df.rows[i] @@ [tag |-> TagOf(df.rows[i])]])

(***************************************************************************)
(* sort_values('total_effect', key=abs, ascending=False).  The sort is     *)
(* quicksort, which pandas documents as not stable: rows of equal          *)
(* |total_effect| may come out in any order.                               *)
(***************************************************************************)
SortedByAbsDesc(rows) ==
    \A i \in 1..(Len(rows) - 1) :
        RLe(RAbs(rows[i + 1].total_effect), RAbs(rows[i].total_effect))

SortOrders(rows) ==
    {p \in Permutations(1..Len(rows)) :
        SortedByAbsDesc([i \in 1..Len(rows) |-> rows[p[i]]])}

Reorder(df, p) == Table(df.cols, [i \in 1..Len(df.rows) |-> df.rows[p[i]]])

(***************************************************************************)
(* Closure Normalizer (sign_split_compress).                               *)
(***************************************************************************)
IsPos(r) == RGt(r.total_effect, Zero)

IsNeg(r) == RLt(r.total_effect, Zero)

\* The delta the scaling closes to: the sum of total_effect over the rows
\* of the table it is given.
CompressDelta(df) == RSum(Col(df.rows, "total_effect"))

\* The target mass taken without the clamp at zero.
PosPartUnclamped(x) == x

\* max(0, x)
PosPart(x) == RMax(Zero, x)

\* k = target / L if L else 0
ScaleFactor(target, L) == IF L # Zero THEN RDiv(target, L) ELSE Zero

sign_split_compress(df) ==
    LET Delta == CompressDelta(df)
        L_pos == RSum(Col(SelectSeq(df.rows, IsPos), "total_effect"))
        L_neg == RSum([i \in 1..Len(SelectSeq(df.rows, IsNeg)) |->
                         RAbs(SelectSeq(df.rows, IsNeg)[i].total_effect)])
        k_pos == ScaleFactor(PosPart(Delta), L_pos)
        k_neg == ScaleFactor(PosPart(RNeg(Delta)), L_neg)
        Scaled(r) == IF IsPos(r) THEN RMul(r.total_effect, k_pos)
                     ELSE IF IsNeg(r) THEN RMul(r.total_effect, k_neg)
                     ELSE Zero
    IN  Table(df.cols \cup {"normalized_effect"},
              [i \in 1..Len(df.rows) |->
                  df.rows[i] @@ [normalized_effect |-> Round6(Scaled(df.rows[i]))]])

(***************************************************************************)
(* zy_satis_analy up to the sort, and run_analysis.                        *)
(***************************************************************************)
\* Lines 135-152: the decomposition table before the threshold.
FullDecomposition(cur, base, dims) == Decompose(Aggregate(cur, base, dims))

\* Lines 154-161: threshold, optional replacement estimate, leave-one-out.
BeforeTagging(cur, base, dims, threshold, method2) ==
    LET g == ThresholdFilter(FullDecomposition(cur, base, dims), threshold)
    IN  add_leave_one_out(IF method2 THEN add_replacement_quality(g) ELSE g)

\* data[data['dt'].between(start, end)]: both ends inclusive.
Between(df, start, end) == {r \in df : start <= r.dt /\ r.dt <= end}

Init ==
    /\ data \in {S \in SUBSET RowUniverse : Cardinality(S) <= MaxRows}
    /\ window \in WindowChoices
    /\ core_dims \in CoreDimsChoices
    /\ min_eva \in MinEvaChoices
    /\ enable_method2 \in BOOLEAN
    /\ cur_df = {}
    /\ base_df = {}
    /\ idx = 0
    /\ decomp = <<>>
    /\ df_out = EmptyTable
    /\ results = <<>>
    /\ pc = "start"

\* run_analysis, lines 176-182.
ReadAndFilter ==
    /\ pc = "start"
    /\ cur_df' = Between(data, window[1], window[2])
    /\ base_df' = Between(data, window[3], window[4])
    /\ pc' = "loop"
    /\ UNCHANGED <<data, window, core_dims, min_eva, enable_method2,
                   idx, decomp, df_out, results>>

\* One iteration of the loop of run_analysis, lines 183-186.
AnalyzeCombo ==
    /\ pc = "loop"
    /\ idx < Len(core_dims)
    /\ LET dims == core_dims[idx + 1]
           g    == BeforeTagging(cur_df, base_df, dims, min_eva, enable_method2)
       IN  /\ ~OpTagRaises(g)
           /\ \E p \in SortOrders(g.rows) :
                 df_out' = sign_split_compress(Reorder(add_op_tag(g), p))
           /\ decomp' = (dims :> FullDecomposition(cur_df, base_df, dims)) @@ decomp
           /\ results' = (dims :> df_out') @@ results
    /\ idx' = idx + 1
    /\ UNCHANGED <<data, window, core_dims, min_eva, enable_method2,
                   cur_df, base_df, pc>>

\* The same iteration when add_op_tag raises: the exception leaves
\* run_analysis and nothing is returned.
AnalyzeRaises ==
    /\ pc = "loop"
    /\ idx < Len(core_dims)
    /\ OpTagRaises(BeforeTagging(cur_df, base_df, core_dims[idx + 1],
                                 min_eva, enable_method2))
    /\ pc' = "failed"
    /\ UNCHANGED <<data, window, core_dims, min_eva, enable_method2,
                   cur_df, base_df, idx, decomp, df_out, results>>

\* Lines 188-194: the workbook is written and the mapping returned.
WriteAndReturn ==
    /\ pc = "loop"
    /\ idx = Len(core_dims)
    /\ pc' = "done"
    /\ UNCHANGED <<data, window, core_dims, min_eva, enable_method2,
                   cur_df, base_df, idx, decomp, df_out, results>>

Next == ReadAndFilter \/ AnalyzeCombo \/ AnalyzeRaises \/ WriteAndReturn

Spec == Init /\ [][Next]_vars

(***************************************************************************)
(* The tag classifier on its own: add_op_tag applied to a one-row table    *)
(* whose row comes from the decomposition of one group of two periods of   *)
(* 1000 evaluations each: ratios and weights fine enough to reach every    *)
(* rule, the near-zero ones included.                                      *)
(***************************************************************************)
TagGroups ==
    [cur_score  : {100, 160, 199, 248, 250, 260, 400},
     cur_count  : {400, 498, 500, 600},
     base_score : {100, 250},
     base_count : {500},
     period_total : {1000}]

\* The quality the group displaced, when it grew and some group shrank.
TagReplaced == {NaN, R(0), <<1, 2>>, R(1)}

TagInputRow(a, s) ==
    LET r == DecomposeRow([key |-> <<1>>,
                           cur_score |-> a.cur_score, cur_count |-> a.cur_count,
                           base_score |-> a.base_score, base_count |-> a.base_count],
                          a.period_total, a.period_total)
        q == IF IsGrow(r) THEN s ELSE NaN
    IN  r @@ [replacement_quality |-> q,
              net_replacement_gap |-> RSub(r.cur_ratio, q),
              loo_net_impact |-> NaN]

InitTag ==
    /\ data = {}
    /\ window = <<2, 2, 1, 1>>
    /\ core_dims = <<>>
    /\ min_eva = 0
    /\ enable_method2 = TRUE
    /\ cur_df = {}
    /\ base_df = {}
    /\ idx = 0
    /\ decomp = <<>>
    /\ results = <<>>
    /\ \E a \in TagGroups, s \in TagReplaced :
          df_out = Table(DecompCols \cup {"replacement_quality", "net_replacement_gap",
                                          "loo_net_impact"},
                         <<TagInputRow(a, s)>>)
    /\ pc = "tag"

TagStep ==
    /\ pc = "tag"
    /\ ~OpTagRaises(df_out)
    /\ df_out' = add_op_tag(df_out)
    /\ pc' = "tagged"
    /\ UNCHANGED <<data, window, core_dims, min_eva, enable_method2,
                   cur_df, base_df, idx, decomp, results>>

NextTag == TagStep

SpecTag == InitTag /\ [][NextTag]_vars

(***************************************************************************)
(* Properties.                                                             *)
(***************************************************************************)
OutTables == {results[d] : d \in DOMAIN results}

FullTables == {decomp[d] : d \in DOMAIN decomp}

RowsOf(T) == {T.rows[i] : i \in 1..Len(T.rows)}

Sign(x) == IF RGt(x, Zero) THEN 1 ELSE IF RLt(x, Zero) THEN -1 ELSE 0

\* A period's aggregate ratio: its total score over its total count.
PeriodRatio(df) ==
    IF SumField(df, "count") = 0 THEN NaN
    ELSE Norm(SumField(df, "score"), SumField(df, "count"))

TrueDelta == RSub(PeriodRatio(cur_df), PeriodRatio(base_df))

Tolerance == <<1, RoundScale>>

\* C1: the total_effect of the groups of the pre-threshold decomposition
\* table sums to cur_ratio_all - base_ratio_all, also when a group has
\* evaluations in one period only.
C1_DecompositionCloses ==
    \A T \in FullTables :
        ~IsNaN(TrueDelta) => RSum(Col(T.rows, "total_effect")) = TrueDelta

\* C2: the normalized_effect of the rows of the filtered output table sums
\* to the period-wide delta of the un-thresholded totals, within 1e-6, for
\* any nonzero delta and any threshold.
C2_NormalizedClosesToTrueDelta ==
    \A T \in OutTables :
        (~IsNaN(TrueDelta) /\ TrueDelta # Zero) =>
            RLe(RAbs(RSub(RSum(Col(T.rows, "normalized_effect")), TrueDelta)),
                Tolerance)

\* C3, as stated: every normalized_effect has the sign of its total_effect
\* and is zero exactly when total_effect is zero.
C3_SignAndZeroPreserved ==
    \A T \in OutTables : \A r \in RowsOf(T) :
        Sign(r.normalized_effect) = Sign(r.total_effect)

\* C3, amended: a normalized_effect never has the sign opposite to its
\* total_effect and is zero when total_effect is zero; it is also zero on
\* every row whose total_effect has not the sign of the sum of total_effect
\* over the table (positive rows when that sum is <= 0, negative rows when
\* it is >= 0).
C3_SignNeverReversed ==
    \A T \in OutTables : \A r \in RowsOf(T) :
        /\ Sign(r.normalized_effect) \in {0, Sign(r.total_effect)}
        /\ Sign(r.total_effect) # Sign(RSum(Col(T.rows, "total_effect")))
              => r.normalized_effect = Zero

\* A table with a positive row scaled to a positive value and a negative
\* row scaled to zero.
C3_Witness ==
    \E T \in OutTables : \E r1 \in RowsOf(T), r2 \in RowsOf(T) :
        /\ Sign(r1.total_effect) = 1
        /\ Sign(r1.normalized_effect) = 1
        /\ Sign(r2.total_effect) = -1
        /\ r2.normalized_effect = Zero

\* The rules of the classifier as the ordered list numbers them (2 .. 9;
\* rule 1 is the default), replace_gap being compared with replace_thresh.
ListedRule(k, r) ==
    LET dS     == r.delta_ratio
        dW     == r.delta_weight
        impact == r.total_effect
        gap    == r.net_replacement_gap
        up(x, t)   == RGt(x, t)
        down(x, t) == RLt(x, RNeg(t))
        near(x, t) == RLe(RAbs(x), t)
    IN  CASE k = 2 -> up(dS, delta_thresh) /\ up(dW, delta_thresh) /\ Sign(impact) = 1
                      /\ up(gap, replace_thresh)
          [] k = 3 -> up(dS, delta_thresh) /\ up(dW, delta_thresh) /\ Sign(impact) = 1
                      /\ down(gap, replace_thresh)
          [] k = 4 -> up(dS, delta_thresh) /\ down(dW, delta_thresh) /\ Sign(impact) = 1
          [] k = 5 -> down(dS, delta_thresh) /\ up(dW, delta_thresh) /\ Sign(impact) = 1
                      /\ up(gap, replace_thresh)
          [] k = 6 -> down(dS, delta_thresh) /\ up(dW, delta_thresh) /\ Sign(impact) = 1
                      /\ down(gap, replace_thresh)
          [] k = 7 -> down(dS, delta_thresh) /\ up(dW, delta_thresh)
                      /\ ~IsNaN(impact) /\ Sign(impact) # 1
          [] k = 8 -> Sign(dS) = -1 /\ Sign(dW) = -1 /\ Sign(impact) = -1
          [] k = 9 -> near(dS, delta_thresh) /\ near(dW, delta_thresh)
                      /\ near(impact, delta_thresh)

ListedLabel(k, r) ==
    CASE k = 1 -> TagDefault
      [] k = 2 -> TagCore
      [] k = 3 -> TagCaptured
      [] k = 4 -> TagVolumeLost
      [] k = 5 -> TagNetPositive
      [] k = 6 -> TagAttention
      [] k = 7 -> TagAttention
      [] k = 8 -> IF RGt(RAbs(r.service_effect),
                         RMul(dominance_ratio, RAbs(r.weight_effect)))
                  THEN TagQuality
                  ELSE IF RGt(RAbs(r.weight_effect),
                              RMul(dominance_ratio, RAbs(r.service_effect)))
                  THEN TagVolume
                  ELSE TagMixed
      [] k = 9 -> TagInsufficient

HighestRule(r) ==
    LET hit == {1} \cup {k \in 2..9 : ListedRule(k, r)}
    IN  CHOOSE k \in hit : \A j \in hit : j <= k

\* C4: the tag of a row is the label of the highest-numbered rule of the
\* ordered list whose mask the row satisfies; a row that satisfies none of
\* rules 2-9 keeps the default label.
C4_HighestRuleWins ==
    "tag" \in df_out.cols =>
        \A r \in RowsOf(df_out) : r.tag = ListedLabel(HighestRule(r), r)

\* A tagged row that satisfies both rule 8 and rule 9 and carries rule 9's
\* label.
C4_Witness ==
    /\ pc = "tagged"
    /\ \E r \in RowsOf(df_out) :
          ListedRule(8, r) /\ ListedRule(9, r) /\ r.tag = TagInsufficient

\* C5: replacement_quality and net_replacement_gap of a row are defined
\* exactly when the row grew and some row of the table shrank; then
\* replacement_quality is the |delta_weight|-weighted average of the
\* shrinking rows' cur_ratio, the same on every growing row, and
\* net_replacement_gap = cur_ratio - replacement_quality.
C5_ReplacementFields ==
    \A T \in OutTables :
        "replacement_quality" \in T.cols =>
            LET Shrank(r) == Sign(r.delta_weight) = -1
                loss      == SelectSeq(T.rows, Shrank)
                mass      == RSum([i \in 1..Len(loss) |-> RAbs(loss[i].delta_weight)])
                quality   == RSum([i \in 1..Len(loss) |->
                                     RMul(RAbs(loss[i].delta_weight), loss[i].cur_ratio)])
            IN  \A r \in RowsOf(T) :
                    LET defined == Sign(r.delta_weight) = 1 /\ loss # <<>>
                    IN  /\ ~IsNaN(r.replacement_quality) <=> defined
                        /\ ~IsNaN(r.net_replacement_gap) <=> defined
                        /\ defined =>
                              /\ RMul(r.replacement_quality, mass) = quality
                              /\ r.net_replacement_gap =
                                     RSub(r.cur_ratio, r.replacement_quality)

\* Two growing rows that share the replacement quality of a shrinking row.
C5_Witness ==
    \E T \in OutTables : \E r1 \in RowsOf(T), r2 \in RowsOf(T), r3 \in RowsOf(T) :
        /\ "replacement_quality" \in T.cols
        /\ r1.key # r2.key
        /\ Sign(r1.delta_weight) = 1
        /\ Sign(r2.delta_weight) = 1
        /\ Sign(r3.delta_weight) = -1
        /\ ~IsNaN(r1.replacement_quality)
        /\ r1.replacement_quality = r2.replacement_quality

\* The current-period aggregate ratio of a table without one of its rows,
\* and with all of them.
CurExcl(T, r) ==
    LET n == ISum(Col(T.rows, "cur_count")) - r.cur_count
    IN  IF n = 0 THEN NaN ELSE Norm(ISum(Col(T.rows, "cur_score")) - r.cur_score, n)

CurAll(T) ==
    LET n == ISum(Col(T.rows, "cur_count"))
    IN  IF n = 0 THEN NaN ELSE Norm(ISum(Col(T.rows, "cur_score")), n)

\* C6, as stated: loo_net_impact = S_cur_excl - S_cur_all whenever both
\* are defined, whatever the base-period totals; it is undefined when the
\* excluded current count or the current total count is zero.
C6_LooIndependentOfBase ==
    \A T \in OutTables : \A r \in RowsOf(T) :
        IF IsNaN(CurExcl(T, r)) \/ IsNaN(CurAll(T))
        THEN IsNaN(r.loo_net_impact)
        ELSE r.loo_net_impact = RSub(CurExcl(T, r), CurAll(T))

\* C6, amended: loo_net_impact = S_cur_excl - S_cur_all whenever both are
\* defined and the base-period total count of the table is not zero; it
\* is undefined when the excluded current count, the current total count
\* or the base-period total count is zero.
C6_LooNeedsBaseTotal ==
    \A T \in OutTables : \A r \in RowsOf(T) :
        IF IsNaN(CurExcl(T, r)) \/ IsNaN(CurAll(T))
           \/ ISum(Col(T.rows, "base_count")) = 0
        THEN IsNaN(r.loo_net_impact)
        ELSE r.loo_net_impact = RSub(CurExcl(T, r), CurAll(T))

\* A row with a defined, nonzero leave-one-out impact, and a single-row
\* table whose impact is undefined.
C6_Witness ==
    /\ \E T \in OutTables : \E r \in RowsOf(T) :
          ~IsNaN(r.loo_net_impact) /\ r.loo_net_impact # Zero
    /\ \E T \in OutTables :
          Len(T.rows) = 1 /\ T.rows[1].cur_count > 0 /\ T.rows[1].base_count > 0
          /\ IsNaN(T.rows[1].loo_net_impact)

\* C7: a group whose count sum is zero in exactly one period has both
\* ratios defined, the missing one filled from the other period, so that
\* delta_ratio = 0 and total_effect is defined; a ratio is undefined only
\* when the count sum is zero in both periods.
C7_RatioFilledFromOtherPeriod ==
    \A T \in FullTables : \A r \in RowsOf(T) :
        /\ (r.cur_count = 0) # (r.base_count = 0) =>
              /\ ~IsNaN(r.cur_ratio)
              /\ ~IsNaN(r.base_ratio)
              /\ r.delta_ratio = Zero
              /\ ~IsNaN(r.total_effect)
        /\ (IsNaN(r.cur_ratio) \/ IsNaN(r.base_ratio)) =>
              (r.cur_count = 0 /\ r.base_count = 0)

\* C8: a group's weight is its count sum over the period-wide total count
\* of all groups before the threshold, and 0 when that total is zero.
C8_WeightZeroWhenPeriodEmpty ==
    \A T \in FullTables : \A r \in RowsOf(T) :
        LET cur_total  == SumField(cur_df, "count")
            base_total == SumField(base_df, "count")
        IN  /\ r.cur_weight = IF cur_total = 0 THEN Zero
                              ELSE Norm(r.cur_count, cur_total)
            /\ r.base_weight = IF base_total = 0 THEN Zero
                               ELSE Norm(r.base_count, base_total)

\* C9: for both values of the flag the per-combination operation runs to
\* completion and returns a table with a tag on every row, sorted
\* descending by |total_effect|; with the flag false the replacement
\* fields are absent and no failure is raised.
C9_CompletesForBothFlagValues ==
    /\ pc # "failed"
    /\ \A T \in OutTables :
          /\ "tag" \in T.cols
          /\ SortedByAbsDesc(T.rows)
          /\ ("replacement_quality" \in T.cols) = enable_method2

\* The keys of the groups present in either period whose current count
\* reaches the threshold.
KeptKeys(dims) ==
    {k \in GroupKeys(cur_df \cup base_df, dims) :
        SumField(GroupRows(cur_df, dims, k), "count") >= min_eva}

\* C10: the returned mapping has an entry for every requested combination,
\* holding exactly the groups whose current count reaches min_eva; when
\* min_eva exceeds every group's current count the table is empty, its key
\* is still in the mapping and no failure is raised.
C10_EveryCombinationReturned ==
    /\ pc = "done" =>
          \A i \in 1..Len(core_dims) :
              /\ core_dims[i] \in DOMAIN results
              /\ {r.key : r \in RowsOf(results[core_dims[i]])} = KeptKeys(core_dims[i])
    /\ (\A i \in 1..Len(core_dims) :
            /\ GroupKeys(cur_df \cup base_df, core_dims[i]) # {}
            /\ KeptKeys(core_dims[i]) = {})
          => pc # "failed"

====
